---- MODULE Spec2Model ----
(***************************************************************************)
(* Model of src/dnscrypt-proxy/alt_arc4random.c: the alleged-RC4 based     *)
(* generator that keeps one open descriptor on the entropy device.         *)
(*                                                                         *)
(* The program state is the five file-scope statics (rs, rs_initialized,   *)
(* alt_arc4_stir_pid, alt_arc4_count, random_data_source_fd).  The         *)
(* environment is the process identifier, the device nodes and the         *)
(* descriptor table.  Every public function is one action; the functions   *)
(* it calls are operators on a record m that holds all of the above, so    *)
(* that a call made in the middle of another one (a reseed inside the      *)
(* buf loop) is computed as the code computes it.                          *)
(***************************************************************************)
EXTENDS Integers, Sequences, FiniteSets, TLC

VARIABLES
    rs,                     \* struct alt_arc4_stream: [i, j, s]
    rs_initialized,         \* static int rs_initialized (0 / 1)
    alt_arc4_stir_pid,      \* static pid_t alt_arc4_stir_pid
    alt_arc4_count,         \* static int alt_arc4_count
    random_data_source_fd,  \* static int random_data_source_fd
    pid,                    \* what getpid() returns
    dev,                    \* device nodes: what access() and open() do
    os_fd,                  \* descriptor table: device DevFd is open on, 0 if closed
    aborted,                \* abort() was called; the process is gone
    h,                      \* history of the calls (observations only)
    steps                   \* number of events so far

vars == <<rs, rs_initialized, alt_arc4_stir_pid, alt_arc4_count,
          random_data_source_fd, pid, dev, os_fd, aborted, h, steps>>

----------------------------------------------------------------------------
(* Bounds of the exploration                                               *)

MaxSteps == 2       \* events explored after an initial state
MaxSmallU == 16     \* upper bounds 2..MaxSmallU are all tried by SpecUniform
MaxPid   == 2       \* process identifiers are 1..MaxPid (one fork)
Slack    == 6       \* count left in the nearly exhausted initial state
OutKeep  == 4       \* bytes of a call's output the history retains
MaxDraws == 3       \* draws SpecUniform follows one call of uniform for

(* Program constants                                                       *)

RekeyInterval == 1600000
RndLen        == 128
DiscardLen    == 256
TableLen      == 256
NoFd          == -1
DevFd         == 3
Half          == 65536

----------------------------------------------------------------------------
(* Inputs                                                                  *)

Zero128 == [k \in 1..RndLen |-> 0]
Ramp128 == [k \in 1..RndLen |-> (7 * k) % 256]

\* what a 128-byte read of the device can deliver
Entropy == {Zero128, Ramp128}

\* A byte whose value the program does not determine: rnd[] is an automatic
\* array without initialiser, and a read that fails leaves it as the stack
\* happened to be.  Indet stands for every value 0..255 at once; it spreads
\* to whatever is computed from it.
Indet == -1

\* rnd[] as no read has filled it
IndetRnd == [k \in 1..RndLen |-> Indet]

\* the table once an indeterminate byte has been mixed into it
IndetTable == [n \in 0..(TableLen-1) |-> Indet]

\* caller data for addrandom: <<dat, datlen>>
Data == { <<0>>, <<255, 1>>, <<1, 2, 3>> }

BufLens  == {0, 2, 3}
\* upper bounds for uniform: 0, 1, 2, 3, 2^16, 2^31, 2^31 + 1, 2^32 - 1, as
\* 32-bit words
UBounds  == { <<0, 0>>, <<0, 1>>, <<0, 2>>, <<0, 3>>, <<1, 0>>, <<32768, 0>>,
              <<32768, 1>>, <<65535, 65535>> }

DevNames == <<"/dev/arandom", "/dev/urandom", "/dev/random">>

\* a device node is "ok" (access and open succeed), "noopen" (access
\* succeeds, open fails) or "absent" (access fails)
AllOk    == <<"ok", "ok", "ok">>
Linux    == <<"absent", "ok", "ok">>
NoDev    == <<"absent", "absent", "absent">>
NoOpen   == <<"noopen", "ok", "ok">>
Envs     == {AllOk, Linux, NoDev, NoOpen}

----------------------------------------------------------------------------
(* The record the operators work on                                        *)

NoStir == [path |-> "none", count |-> 0, stir_pid |-> 0, pid |-> 0,
           pre_stir_pid |-> 0, discarded |-> 0, read_ok |-> FALSE,
           fd |-> NoFd,
           rs |-> [i |-> 0, j |-> 0, s |-> [n \in 0..(TableLen-1) |-> 0]]]

FreshHist ==
    [ n_open |-> 0, n_read |-> 0, n_stir |-> 0, n_close_ok |-> 0,
      touched |-> <<>>, open_env |-> <<>>,
      run |-> 0, max_run |-> 0, ks_pos |-> 0, last_stir |-> NoStir,
      op |-> "none", arg |-> 0, ret |-> 0, out |-> <<>>, n_out |-> 0,
      words |-> <<>>, min_count |-> 0,
      c_open |-> 0, c_read |-> 0, c_stir |-> 0, c_uninit |-> 0,
      first_out |-> -1, min_out |-> -1, stirs_at_first_out |-> 0,
      os_close |-> "none", in_loop |-> FALSE,
      pre |-> [fd |-> NoFd, count |-> 0, stir_pid |-> 0, init |-> 0, pid |-> 0,
               rs |-> [i |-> 0, j |-> 0, s |-> [n \in 0..(TableLen-1) |-> 0]]],
      prev_op |-> "none", prev_ret |-> 0 ]

\* statics are zero-initialised, random_data_source_fd is set to -1
Fresh(env) ==
    [ rs |-> [i |-> 0, j |-> 0, s |-> [n \in 0..(TableLen-1) |-> 0]],
      rs_initialized |-> 0,
      alt_arc4_stir_pid |-> 0,
      alt_arc4_count |-> 0,
      random_data_source_fd |-> NoFd,
      pid |-> 1, dev |-> env, os_fd |-> 0, aborted |-> FALSE,
      val |-> 0,
      h |-> FreshHist ]

Cur ==
    [ rs |-> rs, rs_initialized |-> rs_initialized,
      alt_arc4_stir_pid |-> alt_arc4_stir_pid,
      alt_arc4_count |-> alt_arc4_count,
      random_data_source_fd |-> random_data_source_fd,
      pid |-> pid, dev |-> dev, os_fd |-> os_fd, aborted |-> aborted,
      val |-> 0,
      h |-> h ]

Set(m) ==
    /\ rs' = m.rs
    /\ rs_initialized' = m.rs_initialized
    /\ alt_arc4_stir_pid' = m.alt_arc4_stir_pid
    /\ alt_arc4_count' = m.alt_arc4_count
    /\ random_data_source_fd' = m.random_data_source_fd
    /\ pid' = m.pid
    /\ dev' = m.dev
    /\ os_fd' = m.os_fd
    /\ aborted' = m.aborted
    /\ h' = m.h

\* entry of a public call: the per-call observations start afresh
Begin(m, op, arg) ==
    [m EXCEPT !.val = 0,
              !.h.prev_op = m.h.op, !.h.prev_ret = m.h.ret,
              !.h.op = op, !.h.arg = arg, !.h.ret = 0,
              !.h.out = <<>>, !.h.n_out = 0, !.h.words = <<>>,
              !.h.min_count = m.alt_arc4_count,
              !.h.c_open = 0, !.h.c_read = 0, !.h.c_stir = 0, !.h.c_uninit = 0,
              !.h.first_out = -1, !.h.min_out = -1,
              !.h.stirs_at_first_out = 0,
              !.h.os_close = "none", !.h.in_loop = FALSE,
              !.h.pre = [fd |-> m.random_data_source_fd,
                         count |-> m.alt_arc4_count,
                         stir_pid |-> m.alt_arc4_stir_pid,
                         init |-> m.rs_initialized,
                         pid |-> m.pid,
                         rs |-> m.rs]]

\* k bytes of keystream have just been handed to the caller; ks_pos - k is
\* the number of bytes the generator had produced since it was last keyed
\* when the first of them was extracted
NoteOut(m, k) ==
    [m EXCEPT !.h.run = @ + k,
              !.h.n_out = @ + k,
              !.h.first_out = IF @ = -1 THEN m.h.ks_pos - k ELSE @,
              !.h.min_out = IF @ = -1 \/ m.h.ks_pos - k < @
                            THEN m.h.ks_pos - k ELSE @,
              !.h.stirs_at_first_out = IF m.h.first_out = -1 THEN m.h.c_stir ELSE @]

----------------------------------------------------------------------------
(* alt_arc4_random_dev_open: the first device that access() accepts is     *)
(* opened, and the result of that open() is returned                       *)

RECURSIVE dev_open_from(_, _)
dev_open_from(m, k) ==
    IF k > Len(DevNames)
    THEN [m EXCEPT !.val = -1]
    ELSE LET m1 == [m EXCEPT !.h.touched = Append(@, k)]
         IN  IF m1.dev[k] # "absent"
             THEN IF m1.dev[k] = "ok"
                  THEN [m1 EXCEPT !.val = DevFd, !.os_fd = k,
                                  !.h.n_open = @ + 1, !.h.c_open = @ + 1]
                  ELSE [m1 EXCEPT !.val = -1]
             ELSE dev_open_from(m1, k + 1)

alt_arc4_random_dev_open(m) == dev_open_from([m EXCEPT !.h.open_env = m.dev], 1)

(* alt_arc4_init                                                           *)
alt_arc4_init(m) ==
    LET m1 == [m EXCEPT !.rs = [i |-> 0, j |-> 0,
                                s |-> [n \in 0..(TableLen-1) |-> n]]]
        opened(m2) ==
            IF m2.val = -1
            THEN [m2 EXCEPT !.random_data_source_fd = -1, !.aborted = TRUE]
            ELSE [m2 EXCEPT !.random_data_source_fd = m2.val]
    IN  IF m1.random_data_source_fd # NoFd
        THEN m1
        ELSE opened(alt_arc4_random_dev_open(m1))

(* alt_arc4_addrandom: dat is a sequence, dat[n % datlen] is dat[(n % datlen)+1] *)
\* [variant] the swap without the temporary: s[j] is written from the
\* already overwritten s[i]
addrandom_step_notemp(r, d) ==
    LET i1 == (r.i + 1) % 256
        si == r.s[i1]
        j1 == (r.j + si + d) % 256
    IN  IF d = Indet \/ si = Indet \/ r.j = Indet
        THEN [i |-> i1, j |-> Indet, s |-> IndetTable]
        ELSE [i |-> i1, j |-> j1, s |-> [r.s EXCEPT ![i1] = r.s[j1]]]

\* with an indeterminate operand rs.i is still known, rs.j and the two
\* entries swapped are not, and so no entry of the table is
addrandom_step(r, d) ==
    LET i1 == (r.i + 1) % 256
        si == r.s[i1]
        j1 == (r.j + si + d) % 256
    IN  IF d = Indet \/ si = Indet \/ r.j = Indet
        THEN [i |-> i1, j |-> Indet, s |-> IndetTable]
        ELSE [i |-> i1, j |-> j1, s |-> [r.s EXCEPT ![i1] = r.s[j1], ![j1] = si]]

\* for (n = lo; n < hi; n++): the turns lo..hi-1 of the loop, split in two
\* halves so that the evaluation does not nest 256 deep
RECURSIVE addrandom_loop(_, _, _, _, _)
addrandom_loop(r, dat, datlen, lo, hi) ==
    IF hi = lo THEN r
    ELSE IF hi = lo + 1 THEN addrandom_step(r, dat[(lo % datlen) + 1])
    ELSE LET mid  == (lo + hi) \div 2
             half == addrandom_loop(r, dat, datlen, lo, mid)
         IN  IF half.i >= 0 THEN addrandom_loop(half, dat, datlen, mid, hi)
             ELSE half

\* [variant] of alt_arc4_addrandom: j is left as the loop left it
alt_arc4_addrandom_noj(m, dat, datlen) ==
    LET r0 == [m.rs EXCEPT !.i = (m.rs.i + 255) % 256]
        mixed(r1) == [m EXCEPT !.rs = r1]
    IN  mixed(addrandom_loop(r0, dat, datlen, 0, TableLen))

alt_arc4_addrandom(m, dat, datlen) ==
    LET r0 == [m.rs EXCEPT !.i = (m.rs.i + 255) % 256]
        mixed(r1) == [m EXCEPT !.rs = [r1 EXCEPT !.j = r1.i]]
    IN  mixed(addrandom_loop(r0, dat, datlen, 0, TableLen))

(* alt_arc4_getbyte                                                        *)
\* the byte of an indeterminate table is indeterminate
alt_arc4_getbyte(m) ==
    LET i1 == (m.rs.i + 1) % 256
        si == m.rs.s[i1]
        j1 == (m.rs.j + si) % 256
        sj == m.rs.s[j1]
        s1 == [m.rs.s EXCEPT ![i1] = sj, ![j1] = si]
    IN  IF si = Indet \/ m.rs.j = Indet
        THEN [m EXCEPT !.rs = [i |-> i1, j |-> Indet, s |-> IndetTable],
                       !.val = Indet,
                       !.h.ks_pos = @ + 1]
        ELSE [m EXCEPT !.rs = [i |-> i1, j |-> j1, s |-> s1],
                       !.val = s1[(si + sj) % 256],
                       !.h.ks_pos = @ + 1]

\* a 32-bit word the program does not determine
IndetWord == <<Indet, Indet>>

(* alt_arc4_getword: four bytes, the first one most significant            *)
alt_arc4_getword(m) ==
    LET b4(m1, m2, m3, m4) ==
            IF m1.val = Indet \/ m2.val = Indet \/ m3.val = Indet \/ m4.val = Indet
            THEN [m4 EXCEPT !.val = IndetWord]
            ELSE [m4 EXCEPT !.val = <<m1.val * 256 + m2.val,
                                      m3.val * 256 + m4.val>>]
        b3(m1, m2, m3) == b4(m1, m2, m3, alt_arc4_getbyte(m3))
        b2(m1, m2)     == b3(m1, m2, alt_arc4_getbyte(m2))
        b1(m1)         == b2(m1, alt_arc4_getbyte(m1))
    IN  b1(alt_arc4_getbyte(m))

\* [variant] no early keystream is thrown away
discard_nothing(m, n) == m

\* for (i = 0; i < n; i++) (void)alt_arc4_getbyte();
RECURSIVE discard_loop(_, _)
discard_loop(m, n) ==
    IF n = 0 THEN m
    ELSE IF n = 1 THEN alt_arc4_getbyte(m)
    ELSE LET half == discard_loop(m, n \div 2)
         IN  IF half.rs.i >= 0 THEN discard_loop(half, n - (n \div 2))
             ELSE half

\* safe_read(random_data_source_fd, rnd, sizeof(rnd)) fills rnd only when
\* the descriptor is open
ReadOk(m) == m.random_data_source_fd # NoFd /\ m.os_fd # 0

\* if (!rs_initialized) { alt_arc4_init(); rs_initialized = 1; }
\* abort() inside alt_arc4_init ends the process before the flag is set
\* [variant] the device is opened again for every reseed
stir_prime_reopen(m) ==
    LET primed(m1) == IF m1.aborted THEN m1 ELSE [m1 EXCEPT !.rs_initialized = 1]
    IN  primed(alt_arc4_init([m EXCEPT !.random_data_source_fd = NoFd]))

stir_prime(m) ==
    LET primed(m1) == IF m1.aborted THEN m1 ELSE [m1 EXCEPT !.rs_initialized = 1]
    IN  IF m.rs_initialized = 0 THEN primed(alt_arc4_init(m)) ELSE m

(* The rest of alt_arc4_stir: read, mix in, discard, re-arm the counter.   *)
(* e is what the device delivers when it is read.  rnd[] holds e after a   *)
(* read that succeeded and is indeterminate otherwise: the result of       *)
(* safe_read is not looked at and rnd[] is mixed in either way.  path      *)
(* names the call site, for the history only.                              *)
stir_key(m1, e, path) ==
    LET ok == ReadOk(m1)
        m2 == [m1 EXCEPT !.h.n_read = IF ok THEN @ + 1 ELSE @,
                         !.h.c_read = IF ok THEN @ + 1 ELSE @,
                         !.h.c_uninit = IF ok THEN @ ELSE @ + 1]
        rnd == IF ok THEN e ELSE IndetRnd
        m3 == [alt_arc4_addrandom(m2, rnd, RndLen) EXCEPT !.h.ks_pos = 0]
        noted(m5) ==
            [m5 EXCEPT !.h.n_stir = @ + 1,
                       !.h.c_stir = @ + 1,
                       !.h.max_run = IF m5.h.run > @ THEN m5.h.run ELSE @,
                       !.h.run = 0,
                       !.h.last_stir =
                           [path |-> path,
                            count |-> m5.alt_arc4_count,
                            stir_pid |-> m5.alt_arc4_stir_pid,
                            pid |-> m5.pid,
                            pre_stir_pid |-> m5.h.pre.stir_pid,
                            discarded |-> m5.h.ks_pos,
                            read_ok |-> ok,
                            fd |-> m5.random_data_source_fd,
                            rs |-> m5.rs]]
        rearm(m4) == noted([m4 EXCEPT !.alt_arc4_count = RekeyInterval])
    IN  rearm(discard_loop(m3, DiscardLen))

\* [variant] of alt_arc4_stir: the table is primed and nothing is mixed in
alt_arc4_stir_primeonly(m, e, path) == stir_prime(m)

(* alt_arc4_stir                                                           *)
alt_arc4_stir(m, e, path) ==
    LET key(m1) == IF m1.aborted THEN m1 ELSE stir_key(m1, e, path)
    IN  key(stir_prime(m))

\* [variant] of alt_arc4_stir_if_needed: the pid is not recorded
alt_arc4_stir_if_needed_nopid(m, e) ==
    IF m.alt_arc4_count <= 0 \/ m.rs_initialized = 0
          \/ m.alt_arc4_stir_pid # m.pid
    THEN alt_arc4_stir(m, e, "stir_if_needed")
    ELSE m

(* alt_arc4_stir_if_needed                                                 *)
alt_arc4_stir_if_needed(m, e) ==
    IF m.alt_arc4_count <= 0 \/ m.rs_initialized = 0
          \/ m.alt_arc4_stir_pid # m.pid
    THEN alt_arc4_stir([m EXCEPT !.alt_arc4_stir_pid = m.pid], e,
                       "stir_if_needed")
    ELSE m

NeedStir(m) ==
    m.alt_arc4_count <= 0 \/ m.rs_initialized = 0 \/ m.alt_arc4_stir_pid # m.pid

----------------------------------------------------------------------------
(* The public functions                                                    *)

alt_arc4random_stir(m, e) == alt_arc4_stir(m, e, "stir")

\* [variant] of alt_arc4random_close: the stored descriptor is forgotten
\* whatever close() returned
alt_arc4random_close_forget(m, ok) ==
    IF m.random_data_source_fd # NoFd
    THEN [m EXCEPT !.random_data_source_fd = -1,
                   !.os_fd = IF ok THEN 0 ELSE @,
                   !.h.ret = IF ok THEN 0 ELSE -1,
                   !.h.os_close = IF ok THEN "ok" ELSE "fail",
                   !.h.n_close_ok = IF ok THEN @ + 1 ELSE @]
    ELSE [m EXCEPT !.h.ret = -1, !.h.os_close = "none"]

\* [variant] of alt_arc4random_close: a successful close also marks the
\* generator as not initialized
alt_arc4random_close_reset(m, ok) ==
    IF m.random_data_source_fd # NoFd /\ ok
    THEN [m EXCEPT !.random_data_source_fd = -1, !.os_fd = 0,
                   !.rs_initialized = 0,
                   !.h.ret = 0, !.h.os_close = "ok",
                   !.h.n_close_ok = @ + 1]
    ELSE [m EXCEPT !.h.ret = -1,
                   !.h.os_close = IF m.random_data_source_fd # NoFd
                                  THEN "fail" ELSE "none"]

\* ok: whether the operating system's close() succeeds
alt_arc4random_close(m, ok) ==
    IF m.random_data_source_fd # NoFd /\ ok
    THEN [m EXCEPT !.random_data_source_fd = -1, !.os_fd = 0,
                   !.h.ret = 0, !.h.os_close = "ok",
                   !.h.n_close_ok = @ + 1]
    ELSE [m EXCEPT !.h.ret = -1,
                   !.h.os_close = IF m.random_data_source_fd # NoFd
                                  THEN "fail" ELSE "none"]

alt_arc4random_addrandom(m, dat, datlen, e) ==
    LET mix(m1) == IF m1.aborted THEN m1 ELSE alt_arc4_addrandom(m1, dat, datlen)
    IN  mix(IF m.rs_initialized = 0 THEN alt_arc4_stir(m, e, "addrandom")
            ELSE m)

\* [variant] of alt_arc4random: the four bytes are not counted
alt_arc4random_uncounted(m, e) ==
    LET result(m3) == [m3 EXCEPT !.h.ret = m3.val, !.h.words = Append(@, m3.val)]
        word(m2)   == IF m2.aborted THEN m2
                      ELSE result(NoteOut(alt_arc4_getword(m2), 4))
    IN  word(alt_arc4_stir_if_needed(m, e))

alt_arc4random(m, e) ==
    LET m1 == [m EXCEPT !.alt_arc4_count = @ - 4,
                        !.h.min_count = IF m.alt_arc4_count - 4 < @
                                        THEN m.alt_arc4_count - 4 ELSE @]
        result(m3) == [m3 EXCEPT !.h.ret = m3.val, !.h.words = Append(@, m3.val)]
        word(m2)   == IF m2.aborted THEN m2
                      ELSE result(NoteOut(alt_arc4_getword(m2), 4))
    IN  word(alt_arc4_stir_if_needed(m1, e))

\* [variant] of buf_iter: the reseed comes only when count is below zero
buf_iter_late(m, e) ==
    LET m1 == [m EXCEPT !.alt_arc4_count = @ - 1,
                        !.h.min_count = IF m.alt_arc4_count - 1 < @
                                        THEN m.alt_arc4_count - 1 ELSE @]
        m2 == IF m1.alt_arc4_count < 0 THEN alt_arc4_stir(m1, e, "buf")
              ELSE m1
        store(m3) ==
            [m3 EXCEPT !.h.out = IF Len(@) < OutKeep THEN Append(@, m3.val) ELSE @]
    IN  store(NoteOut(alt_arc4_getbyte(m2), 1))

\* one turn of  while (n--) { if (--count <= 0) stir(); buf[n] = getbyte(); }
buf_iter(m, e) ==
    LET m1 == [m EXCEPT !.alt_arc4_count = @ - 1,
                        !.h.min_count = IF m.alt_arc4_count - 1 < @
                                        THEN m.alt_arc4_count - 1 ELSE @]
        m2 == IF m1.alt_arc4_count <= 0 THEN alt_arc4_stir(m1, e, "buf")
              ELSE m1
        store(m3) ==
            [m3 EXCEPT !.h.out = IF Len(@) < OutKeep THEN Append(@, m3.val) ELSE @]
    IN  store(NoteOut(alt_arc4_getbyte(m2), 1))

RECURSIVE buf_loop(_, _, _)
buf_loop(m, n, e) ==
    IF n = 0 THEN m
    ELSE IF n = 1 THEN buf_iter(m, e)
    ELSE LET half == buf_loop(m, n \div 2, e)
         IN  IF half.aborted THEN half
             ELSE buf_loop(half, n - (n \div 2), e)

alt_arc4random_buf(m, n, e) ==
    LET fill(m1) == IF m1.aborted THEN m1 ELSE buf_loop(m1, n, e)
    IN  fill(alt_arc4_stir_if_needed(m, e))

(* 32-bit unsigned words.  The checker's integers are 32-bit signed, so a   *)
(* uint32_t is the pair <<high 16 bits, low 16 bits>>; a remainder under    *)
(* construction may carry one more bit in its high part.                   *)
WGe(a, b) == a[1] > b[1] \/ (a[1] = b[1] /\ a[2] >= b[2])

WSub(a, b) ==
    IF a[2] >= b[2] THEN <<a[1] - b[1], a[2] - b[2]>>
    ELSE <<a[1] - b[1] - 1, a[2] + Half - b[2]>>

\* 2 * a + bit
WDbl(a, bit) == <<2 * a[1] + ((2 * a[2] + bit) \div Half), (2 * a[2] + bit) % Half>>

Bit(x, k) == (x \div (2 ^ k)) % 2

\* remainder of the number whose 16-bit digits are ds (most significant
\* first) modulo u, by binary long division: k counts the bits done
RECURSIVE WModFrom(_, _, _, _)
WModFrom(ds, u, k, rem) ==
    IF k = 16 * Len(ds)
    THEN rem
    ELSE LET d  == ds[(k \div 16) + 1]
             r2 == WDbl(rem, Bit(d, 15 - (k % 16)))
             r3 == IF WGe(r2, u) THEN WSub(r2, u) ELSE r2
         IN  IF r3[1] >= 0 THEN WModFrom(ds, u, k + 1, r3) ELSE r3

WMod(ds, u) == WModFrom(ds, u, 0, <<0, 0>>)

\* 32-bit arithmetic that wraps around: a + b, a - b, ~a and 2 * a modulo 2^32
WAdd32(a, b) == <<(a[1] + b[1] + ((a[2] + b[2]) \div Half)) % Half,
                  (a[2] + b[2]) % Half>>

WSub32(a, b) ==
    IF a[2] >= b[2] THEN <<(a[1] + Half - b[1]) % Half, a[2] - b[2]>>
    ELSE <<(a[1] + Half - b[1] - 1 + Half) % Half, a[2] + Half - b[2]>>

WNot32(a) == <<(Half - 1) - a[1], (Half - 1) - a[2]>>

WMul2(a) == <<(2 * a[1] + ((2 * a[2]) \div Half)) % Half, (2 * a[2]) % Half>>

\* [variant] of uniform_min: 2^32 - upper_bound for every upper_bound
uniform_min_neg(upper_bound) == WAdd32(<<0, 1>>, WNot32(upper_bound))

\* min = (uint32_t)(0x100000000UL % upper_bound)
uniform_min(upper_bound) == WMod(<<1, 0, 0>>, upper_bound)

\* [variant] of uniform_min32: the "+ 1" of both branches is left out
uniform_min32_noinc(upper_bound) ==
    IF ~WGe(<<32768, 0>>, upper_bound)
    THEN WNot32(upper_bound)
    ELSE WMod(WSub32(<<Half - 1, Half - 1>>, WMul2(upper_bound)), upper_bound)

\* the build without 64-bit math:
\*   if (upper_bound > 0x80000000) min = 1 + ~upper_bound;
\*   else min = ((0xffffffff - (upper_bound * 2)) + 1) % upper_bound;
uniform_min32(upper_bound) ==
    IF ~WGe(<<32768, 0>>, upper_bound)
    THEN WAdd32(<<0, 1>>, WNot32(upper_bound))
    ELSE WMod(WAdd32(WSub32(<<Half - 1, Half - 1>>, WMul2(upper_bound)),
                     <<0, 1>>),
              upper_bound)

\* [variant] of uniform_accepts: every draw is taken
uniform_accepts_any(r, min) == TRUE

\* if (r >= min) break;
uniform_accepts(r, min) == WGe(r, min)

\* [variant] of uniform_return: the accepted draw is returned as it is
uniform_return_noreduce(m, upper_bound) == [m EXCEPT !.h.ret = m.val]

\* return r % upper_bound, indeterminate when r is
uniform_return(m, upper_bound) ==
    IF m.val = IndetWord
    THEN [m EXCEPT !.h.ret = IndetWord]
    ELSE [m EXCEPT !.h.ret = WMod(m.val, upper_bound)]

(* One turn of  for (;;) { r = alt_arc4random(); if (r >= min) break; }    *)
(* and, when the loop is left, the return.  The loop has no bound of its   *)
(* own, so the caller's position is part of the state: h.in_loop says that *)
(* the call is still inside the loop, the last draw having failed the      *)
(* test.  An indeterminate r passes the test or fails it (pass), except    *)
(* that every r passes when min is 0.                                      *)
uniform_turn(m, upper_bound, e, pass) ==
    LET min == uniform_min(upper_bound)
        leaves(m1) == IF m1.val = IndetWord THEN pass \/ min = <<0, 0>>
                      ELSE uniform_accepts(m1.val, min)
        test(m1) == IF m1.aborted THEN m1
                    ELSE IF leaves(m1)
                    THEN uniform_return([m1 EXCEPT !.h.in_loop = FALSE],
                                        upper_bound)
                    ELSE [m1 EXCEPT !.h.in_loop = TRUE]
    IN  test(alt_arc4random(m, e))

\* alt_arc4random_uniform up to the first test of the loop
alt_arc4random_uniform(m, upper_bound, e, pass) ==
    IF ~WGe(upper_bound, <<0, 2>>)
    THEN [m EXCEPT !.h.ret = <<0, 0>>]
    ELSE uniform_turn(m, upper_bound, e, pass)

----------------------------------------------------------------------------
(* Initial states: the generator as the program starts, under each device  *)
(* configuration, and three states a running program is in: after a first *)
(* random(), after a first stir(), and after a random() and a fill that    *)
(* leaves Slack bytes before the interval runs out.  They are computed     *)
(* with the operators above, so they are states the actions reach from the *)
(* fresh one; the last takes 1.6 million turns of the buf loop and is      *)
(* therefore only an initial state of SpecNear.                            *)

CallRandom(m, e)         == alt_arc4random(Begin(m, "random", 0), e)
CallBuf(m, n, e)         == alt_arc4random_buf(Begin(m, "buf", n), n, e)
CallUniform(m, u, e, pass) ==
    alt_arc4random_uniform(Begin(m, "uniform", u), u, e, pass)
CallStir(m, e)           == alt_arc4random_stir(Begin(m, "stir", 0), e)
CallAddrandom(m, d, e)   == alt_arc4random_addrandom(Begin(m, "addrandom", Len(d)),
                                                     d, Len(d), e)
CallClose(m, ok)         == alt_arc4random_close(Begin(m, "close", 0), ok)

\* after the first random() of a program that found every device
UsedAfter(e) == CallRandom(Fresh(AllOk), e)

\* after a stir() as the first call: stir_pid is still the static's zero
StirredAfter(e) == CallStir(Fresh(AllOk), e)

\* ... and after a following fill of RekeyInterval - Slack bytes
NearAfter(e) == CallBuf(UsedAfter(e), RekeyInterval - Slack, e)

\* the variables hold the record m
Holds(m) ==
    /\ rs = m.rs
    /\ rs_initialized = m.rs_initialized
    /\ alt_arc4_stir_pid = m.alt_arc4_stir_pid
    /\ alt_arc4_count = m.alt_arc4_count
    /\ random_data_source_fd = m.random_data_source_fd
    /\ pid = m.pid
    /\ dev = m.dev
    /\ os_fd = m.os_fd
    /\ aborted = m.aborted
    /\ h = m.h

Init ==
    /\ steps = 0
    /\ \E m \in {Fresh(env) : env \in Envs}
                 \cup {UsedAfter(Zero128), StirredAfter(Ramp128)} : Holds(m)

InitNear ==
    /\ steps = 0
    /\ \E m \in {Fresh(AllOk), UsedAfter(Zero128), NearAfter(Zero128)} : Holds(m)

Live == steps < MaxSteps /\ ~aborted
\* the program is between two calls
Idle == ~h.in_loop
Tick == steps' = steps + 1

----------------------------------------------------------------------------
(* Actions: one per public function, one for a further turn of the loop   *)
(* of uniform, and two events of the environment.  e is what the device    *)
(* delivers if the step reads it; it is chosen from Entropy wherever the   *)
(* step can come to read.                                                  *)

Stir ==
    /\ Live /\ Idle /\ Tick
    /\ \E e \in Entropy : Set(CallStir(Cur, e))

Addrandom ==
    /\ Live /\ Idle /\ Tick
    /\ \E d \in Data :
          \E e \in (IF rs_initialized = 0 THEN Entropy ELSE {Zero128}) :
             Set(CallAddrandom(Cur, d, e))

Random ==
    /\ Live /\ Idle /\ Tick
    /\ \E e \in (IF NeedStir([Cur EXCEPT !.alt_arc4_count = @ - 4])
                 THEN Entropy ELSE {Zero128}) :
          Set(CallRandom(Cur, e))

Buf ==
    /\ Live /\ Idle /\ Tick
    /\ \E n \in BufLens :
          \E e \in (IF NeedStir(Cur) \/ alt_arc4_count <= n
                    THEN Entropy ELSE {Zero128}) :
             Set(CallBuf(Cur, n, e))

\* whether r >= min holds for an r drawn from a table keyed with the rnd[]
\* that no read filled, which is what a generator without descriptor has or
\* gets at its next reseed
Passes(u) ==
    IF WGe(u, <<0, 2>>) /\ rs_initialized = 1 /\ ~ReadOk(Cur)
    THEN BOOLEAN ELSE {TRUE}

\* the call up to its return or, when the first draw fails the test, up to
\* that test
Uniform ==
    /\ Live /\ Idle /\ Tick
    /\ \E u \in UBounds :
          \E e \in (IF WGe(u, <<0, 2>>)
                       /\ NeedStir([Cur EXCEPT !.alt_arc4_count = @ - 4])
                    THEN Entropy ELSE {Zero128}) :
             \E pass \in Passes(u) :
                Set(CallUniform(Cur, u, e, pass))

\* one more turn of the loop of a call of uniform that is inside it
UniformDraw ==
    /\ Live /\ h.in_loop /\ Tick
    /\ \E e \in (IF NeedStir([Cur EXCEPT !.alt_arc4_count = @ - 4])
                 THEN Entropy ELSE {Zero128}) :
          \E pass \in Passes(h.arg) :
             Set(uniform_turn(Cur, h.arg, e, pass))

Close ==
    /\ Live /\ Idle /\ Tick
    /\ \E ok \in BOOLEAN :
          /\ (random_data_source_fd = NoFd => ok)
          /\ Set(CallClose(Cur, ok))

\* fork(): the child carries on with a copy of the state and a new pid
Fork ==
    /\ Live /\ Idle /\ Tick
    /\ pid < MaxPid
    /\ pid' = pid + 1
    /\ UNCHANGED <<rs, rs_initialized, alt_arc4_stir_pid, alt_arc4_count,
                   random_data_source_fd, dev, os_fd, aborted, h>>

\* chroot(): the device nodes are out of reach, open descriptors stay
Chroot ==
    /\ Live /\ Idle /\ Tick
    /\ dev # NoDev
    /\ dev' = NoDev
    /\ UNCHANGED <<rs, rs_initialized, alt_arc4_stir_pid, alt_arc4_count,
                   random_data_source_fd, pid, os_fd, aborted, h>>

Next ==
    \/ Stir
    \/ Addrandom
    \/ Random
    \/ Buf
    \/ Uniform
    \/ UniformDraw
    \/ Close
    \/ Fork
    \/ Chroot

Spec == Init /\ [][Next]_vars

\* the same program, started also from the nearly exhausted state
SpecNear == InitNear /\ [][Next]_vars

----------------------------------------------------------------------------
(* alt_arc4random_uniform as a function of its argument and of the words   *)
(* the generator delivers.  The generator has been keyed and its table is  *)
(* left open, so that a draw can be any word; the words tried are those    *)
(* around the threshold.  The threshold is computed (by both builds), and  *)
(* the loop of lines 284-289 takes one draw per step: the draw moves the   *)
(* generator as alt_arc4random does.                                       *)

Pow2(k) == IF k < 16 THEN <<0, 2 ^ k>> ELSE <<2 ^ (k - 16), 0>>

MinInputs ==
    {<<0, n>> : n \in 2..MaxSmallU}
        \cup {Pow2(k) : k \in 1..31}
        \cup {WAdd32(Pow2(k), <<0, 1>>) : k \in {15, 16, 30, 31}}
        \cup {WSub32(Pow2(k), <<0, 1>>) : k \in {15, 16, 31}}
        \cup {<<0, 10007>>, <<1, 34464>>, <<15258, 51712>>, <<21845, 21845>>,
              <<43690, 43690>>, <<49152, 0>>, <<65535, 65534>>, <<65535, 65535>>}

\* the history of the main specification, with the position inside
\* alt_arc4random_uniform as op and the locals min and r
UniformHist(u) ==
    [op |-> "input", arg |-> u, min |-> <<0, 0>>, min32 |-> <<0, 0>>,
     r |-> <<0, 0>>, ret |-> <<0, 0>>, had_reject |-> FALSE] @@ FreshHist

UniformDraws(hh) ==
    {<<0, 0>>, hh.min, WSub32(hh.min, <<0, 1>>), WSub32(hh.arg, <<0, 1>>),
     <<32767, 65535>>, <<32768, 0>>, <<65535, 65535>>}

\* the generator after a first random(), with a table of any content
OpenTable ==
    [UsedAfter(Zero128) EXCEPT !.rs.j = Indet, !.rs.s = IndetTable]

UniformInit ==
    /\ steps = 0
    /\ \E u \in MinInputs : Holds([OpenTable EXCEPT !.h = UniformHist(u)])

\* computing min and returning touch none of the statics
UniformFrame ==
    UNCHANGED <<rs, rs_initialized, alt_arc4_stir_pid, alt_arc4_count,
                random_data_source_fd, pid, dev, os_fd, aborted, steps>>

\* lines 266-276: min, as the 64-bit build and as the 32-bit build compute it
UniformMin ==
    /\ h.op = "input"
    /\ h' = [h EXCEPT !.op = "min",
                      !.min = uniform_min(h.arg),
                      !.min32 = uniform_min32(h.arg)]
    /\ UniformFrame

\* m1 is the generator after r = alt_arc4random() on the open table: it has
\* moved on by four bytes and count has gone down by four; the word is r
UniformDrawn(m1, r) ==
    [m1 EXCEPT !.val = r, !.h.r = r, !.h.ret = r,
               !.h.words = [@ EXCEPT ![Len(@)] = r]]

\* r = alt_arc4random(); r < min: the loop goes round
UniformReject ==
    /\ h.op \in {"min", "rejected"}
    /\ steps + 1 < MaxDraws
    /\ steps' = steps + 1
    /\ \E m1 \in {alt_arc4random(Cur, Zero128)} :
          \E r \in UniformDraws(h) :
             /\ ~uniform_accepts(r, h.min)
             /\ Set([UniformDrawn(m1, r) EXCEPT !.h.op = "rejected",
                                                !.h.had_reject = TRUE])

\* r = alt_arc4random(); r >= min: break
UniformAccept ==
    /\ h.op \in {"min", "rejected"}
    /\ steps' = steps + 1
    /\ \E m1 \in {alt_arc4random(Cur, Zero128)} :
          \E r \in UniformDraws(h) :
             /\ uniform_accepts(r, h.min)
             /\ Set([UniformDrawn(m1, r) EXCEPT !.h.op = "accepted"])

\* return r % upper_bound
UniformReturn ==
    /\ h.op = "accepted"
    /\ h' = [h EXCEPT !.op = "returned", !.ret = WMod(h.r, h.arg)]
    /\ UniformFrame

UniformNext ==
    \/ UniformMin
    \/ UniformReject
    \/ UniformAccept
    \/ UniformReturn

SpecUniform == UniformInit /\ [][UniformNext]_vars

\* the generator eventually yields a draw that is accepted
SpecUniformFair ==
    /\ UniformInit /\ [][UniformNext]_vars
    /\ WF_vars(UniformAccept)

----------------------------------------------------------------------------
(* Properties.  h describes the most recent public call: h.pre is the      *)
(* program state at its entry, h.c_* count what happened during it.        *)

IsPerm(s) == Cardinality({s[k] : k \in 0..(TableLen-1)}) = TableLen

\* t is s with at most two entries exchanged
SwapOnly(s, t) ==
    LET D == {k \in 0..(TableLen-1) : s[k] # t[k]}
    IN  \/ D = {}
        \/ /\ Cardinality(D) = 2
           /\ \A a \in D : \A b \in D \ {a} : t[a] = s[b]

\* the last call was one that hands out random bytes
RandomnessCall ==
    \/ h.op = "random"
    \/ h.op = "buf" /\ h.arg > 0
    \/ h.op = "uniform" /\ WGe(h.arg, <<0, 2>>)

(* C1: after a successful close(), the next random / buf / uniform(U >= 2) *)
(* call opens the entropy device again and reads from it.                  *)
C1_ReacquiresAfterClose ==
    (RandomnessCall /\ h.prev_op = "close" /\ h.prev_ret = 0 /\ ~aborted)
        => /\ h.c_open >= 1
           /\ h.c_read >= 1
           /\ random_data_source_fd # NoFd

(* C2: between calls, rs_initialized true implies that the stored          *)
(* descriptor is not -1 and is open on an entropy device.                  *)
C2_InitializedHasHandle ==
    rs_initialized = 1 => (random_data_source_fd # NoFd /\ os_fd # 0)

(* C3 as stated: right after any reseed, count is the rekey interval and   *)
(* stir_pid is the current pid, whichever path triggered the reseed.       *)
C3_AfterAnyReseed ==
    h.last_stir.path # "none"
        => /\ h.last_stir.count = RekeyInterval
           /\ h.last_stir.stir_pid = h.last_stir.pid

(* C3 amended: right after any reseed count is the rekey interval; stir_pid *)
(* is the current pid after a reseed triggered by stir_if_needed or by the *)
(* buf loop, and is what it was at entry after stir() and addrandom().     *)
C3_AfterReseed ==
    h.last_stir.path # "none"
        => /\ h.last_stir.count = RekeyInterval
           /\ h.last_stir.path \in {"stir_if_needed", "buf"}
                 => h.last_stir.stir_pid = h.last_stir.pid
           /\ h.last_stir.path \in {"stir", "addrandom"}
                 => h.last_stir.stir_pid = h.last_stir.pre_stir_pid

\* a public stir() has left a stir_pid that is not the pid of the process
C3_Witness ==
    /\ h.last_stir.path = "stir"
    /\ h.last_stir.count = RekeyInterval
    /\ h.last_stir.stir_pid # h.last_stir.pid

(* C4: a random or buf call entered with stir_pid different from the pid   *)
(* reseeds (entropy read, mix-in, discard) before its first output byte    *)
(* and leaves stir_pid equal to the pid.                                   *)
C4_ForkReseeds ==
    (h.op \in {"random", "buf"} /\ h.pre.stir_pid # h.pre.pid /\ ~aborted)
        => /\ h.c_stir >= 1
           /\ h.c_read = h.c_stir
           /\ h.last_stir.discarded = DiscardLen
           /\ h.n_out > 0 => h.stirs_at_first_out >= 1
           /\ alt_arc4_stir_pid = h.pre.pid

(* C5 as stated: no more than the rekey interval of bytes is handed out    *)
(* between two consecutive reseeds.                                        *)
C5_RunWithinInterval ==
    h.run <= RekeyInterval /\ h.max_run <= RekeyInterval

(* C5 amended: no more than the rekey interval plus three bytes is handed  *)
(* out between two consecutive reseeds.                                    *)
C5_RunWithinIntervalPlus3 ==
    h.run <= RekeyInterval + 3 /\ h.max_run <= RekeyInterval + 3

\* a reseed made by random(), then fills up to the last counted byte
C5_Witness ==
    /\ h.run = RekeyInterval + 3
    /\ alt_arc4_count = 1
    /\ h.op = "buf"

(* C6: without a close, the device is opened exactly once, at the initial  *)
(* priming, and every reseed reads its 128 bytes from that descriptor,     *)
(* also when the device nodes are no longer reachable.                     *)
C6_OpenedOnce ==
    h.n_close_ok = 0
        => /\ h.n_open = rs_initialized
           /\ h.n_read = h.n_stir
           /\ rs_initialized = 1
                 => /\ random_data_source_fd = DevFd
                    /\ os_fd # 0
                    /\ h.last_stir.read_ok
                    /\ h.last_stir.fd = DevFd

\* a second reseed after the device nodes went out of reach
C6_Witness ==
    /\ h.n_close_ok = 0
    /\ dev = NoDev
    /\ h.c_stir = 1
    /\ h.n_stir >= 2
    /\ h.n_read = h.n_stir
    /\ h.n_open = 1

(* C7: whenever rs_initialized is true s is a permutation of 0..255, and   *)
(* one step of the mix-in (any data byte) or of the extraction exchanges   *)
(* at most two entries of s.  A table keyed with indeterminate bytes is    *)
(* the result of such exchanges at indeterminate places; there is nothing  *)
(* to compute on it.                                                       *)
C7_Permutation ==
    rs_initialized = 1
        => /\ rs.i \in 0..255
           /\ rs.j # Indet => rs.j \in 0..255
           /\ rs.s # IndetTable
                 => /\ IsPerm(rs.s)
                    /\ rs.j # Indet
                    /\ SwapOnly(rs.s, alt_arc4_getbyte(Cur).rs.s)
                    /\ \A d \in {0, 1, 255} :
                          SwapOnly(rs.s, addrandom_step(rs, d).s)

\* caller data of three bytes has been mixed into a keyed table
C7_Witness ==
    /\ rs_initialized = 1
    /\ h.op = "addrandom" /\ h.arg = 3
    /\ h.pre.init = 1
    /\ rs.s # h.pre.rs.s
    /\ IsPerm(rs.s)

(* C8: every reseed throws away exactly 256 bytes of keystream between the *)
(* mix-in and the re-arming of count, so no byte handed to a caller is     *)
(* among the first 256 of a freshly keyed keystream.                       *)
C8_EarlyKeystreamDiscarded ==
    /\ h.last_stir.path # "none" => h.last_stir.discarded = DiscardLen
    /\ h.n_out > 0 => h.min_out >= DiscardLen

\* a call reseeded and its first output byte was the 257th of the keystream
C8_Witness ==
    /\ steps > 0
    /\ h.c_stir = 1
    /\ h.n_out > 0
    /\ h.first_out = DiscardLen
    /\ h.min_out = DiscardLen

(* C9: close() returns -1 only when closing the handle failed; on a        *)
(* generator that never opened a handle it returns 0, and after use it     *)
(* closes the handle and returns 0.                                        *)
C9_CloseResult ==
    h.op = "close"
        => /\ h.ret = -1 => h.os_close = "fail"
           /\ h.pre.fd = NoFd => h.ret = 0
           /\ h.os_close = "ok" => (h.ret = 0 /\ random_data_source_fd = NoFd)

(* C10: when the operating system's close fails close() returns -1 and     *)
(* the stored descriptor is the one it was, so that a later close() can    *)
(* retry; the descriptor is reset to -1 only when the close succeeded.     *)
C10_FailedCloseKeepsHandle ==
    h.op = "close"
        => /\ h.os_close = "fail"
                 => /\ h.ret = -1
                    /\ random_data_source_fd = h.pre.fd
                    /\ random_data_source_fd # NoFd
                    /\ os_fd # 0
           /\ random_data_source_fd # h.pre.fd
                 => /\ h.os_close = "ok"
                    /\ random_data_source_fd = NoFd
                    /\ h.ret = 0

\* a close() that failed was retried on the same descriptor and succeeded
C10_Witness ==
    /\ h.op = "close" /\ h.prev_op = "close" /\ h.prev_ret = -1
    /\ h.pre.fd = DevFd
    /\ h.os_close = "ok"
    /\ random_data_source_fd = NoFd

(* C11: acquisition tries /dev/arandom, /dev/urandom, /dev/random in that  *)
(* order and stops at the first that exists and is readable; that one is   *)
(* opened; the process aborts if and only if no candidate can be opened.   *)
C11_Acquisition ==
    h.touched # <<>>
        => LET Readable == {k \in 1..Len(DevNames) : h.open_env[k] # "absent"}
               Openable == {k \in 1..Len(DevNames) : h.open_env[k] = "ok"}
               last     == IF Readable = {} THEN Len(DevNames)
                           ELSE CHOOSE k \in Readable : \A j \in Readable : k <= j
           IN  /\ h.touched = [k \in 1..last |-> k]
               /\ (~aborted /\ h.n_close_ok = 0) => os_fd = last
               /\ aborted <=> Openable = {}

(* C12: whenever a public call has returned with rs_initialized true, a    *)
(* complete reseed (entropy read and mixed in, 256 bytes discarded, count  *)
(* armed) has finished, and a call entered uninitialized reseeds from the  *)
(* device before the first byte it hands out.                              *)
C12_NeverPrimedOnly ==
    /\ (rs_initialized = 1 /\ ~aborted)
          => /\ h.n_stir >= 1
             /\ h.n_read >= 1
             /\ h.last_stir.discarded = DiscardLen
             /\ h.last_stir.count = RekeyInterval
    /\ (h.pre.init = 0 /\ h.n_out > 0)
          => /\ h.stirs_at_first_out >= 1
             /\ h.c_read >= 1
             /\ h.min_out >= DiscardLen

\* the first call of the program handed out bytes
C12_Witness ==
    /\ steps > 0
    /\ h.pre.init = 0 /\ rs_initialized = 1
    /\ h.n_out > 0
    /\ h.stirs_at_first_out = 1
    /\ h.n_stir = 1 /\ h.n_read = 1

IsWord(w) == w[1] \in 0..(Half - 1) /\ w[2] \in 0..(Half - 1)

(* C13: uniform(U) returns a value in [0, U) for every U >= 2, and 0 for   *)
(* U = 0 and U = 1.  The value is computed wherever the draw is a word the *)
(* program determines.                                                     *)
C13_UniformRange ==
    (h.op = "uniform" /\ Idle /\ ~aborted)
        => IF WGe(h.arg, <<0, 2>>)
           THEN h.ret # IndetWord => (IsWord(h.ret) /\ ~WGe(h.ret, h.arg))
           ELSE h.ret = <<0, 0>>

\* uniform(3) has drawn a word and returned 0, 1 or 2
C13_Witness ==
    /\ h.op = "uniform" /\ Idle /\ ~aborted
    /\ h.arg = <<0, 3>>
    /\ h.n_out >= 4
    /\ h.ret \in {<<0, 0>>, <<0, 1>>, <<0, 2>>}

(* C14: the threshold of the 32-bit build equals that of the 64-bit build  *)
(* and is 2^32 mod U: it is below U, it is (2^16 mod U)^2 mod U when U is  *)
(* below 2^15, and it is 2^32 - U when U is above 2^31.                    *)
C14_MinBothBuilds ==
    h.op # "input"
        => /\ h.min32 = h.min
           /\ IsWord(h.min)
           /\ ~WGe(h.min, h.arg)
           /\ (h.arg[1] = 0 /\ h.arg[2] < 32768)
                 => h.min = <<0, ((Half % h.arg[2]) * (Half % h.arg[2])) % h.arg[2]>>
           /\ ~WGe(<<32768, 0>>, h.arg) => WAdd32(h.min, h.arg) = <<0, 0>>

\* U = 2^31, where 2 * U wraps to 0 in the 32-bit build
C14_Witness ==
    /\ h.op = "min"
    /\ h.arg = <<32768, 0>>
    /\ h.min32 = <<0, 0>>
    /\ h.min = <<0, 0>>

\* 2^32 - w as three 16-bit digits
Complement(w) == IF w = <<0, 0>> THEN <<1, 0, 0>> ELSE <<0>> \o WSub32(<<0, 0>>, w)

(* C15: for U >= 2 uniform draws words until one is not below min = 2^32   *)
(* mod U, every draw before it being below min, and returns that draw      *)
(* modulo U; the accepted draws are the 2^32 - min words from min up, a    *)
(* multiple of U, so each value below U has the same number of them.       *)
C15_NoModuloBias ==
    (h.op = "uniform" /\ ~aborted /\ WGe(h.arg, <<0, 2>>))
        => LET min == uniform_min(h.arg)
               n   == Len(h.words)
           IN  /\ n >= 1
               /\ h.n_out = 4 * n
               /\ \A k \in 1..(n - 1) :
                     h.words[k] # IndetWord => ~WGe(h.words[k], min)
               /\ (h.in_loop /\ h.words[n] # IndetWord)
                     => ~WGe(h.words[n], min)
               /\ (Idle /\ h.words[n] # IndetWord)
                     => /\ WGe(h.words[n], min)
                        /\ ~WGe(h.ret, h.arg)
                        /\ WGe(h.words[n], h.ret)
                        /\ WMod(WSub32(h.words[n], h.ret), h.arg) = <<0, 0>>
               /\ WMod(Complement(min), h.arg) = <<0, 0>>

\* uniform(2^31 + 1) threw a draw away and returned the next one reduced
C15_Witness ==
    /\ h.op = "uniform" /\ Idle /\ ~aborted
    /\ h.arg = <<32768, 1>>
    /\ h.c_uninit = 0
    /\ Len(h.words) >= 2
    /\ ~WGe(h.words[1], <<32767, 65535>>)
    /\ WGe(h.words[Len(h.words)], <<32768, 1>>)
    /\ h.ret = WSub32(h.words[Len(h.words)], <<32768, 1>>)

(* C16: for every U >= 2 min is below 2^31, so more than half of the 2^32  *)
(* words are accepted; a draw is thrown away only when it is below min and *)
(* the first one that is not ends the call; if the generator eventually    *)
(* yields such a draw, the loop of uniform ends.                           *)
C16_Terminates ==
    /\ [](h.op # "input" => (IsWord(h.min) /\ h.min[1] < 32768))
    /\ [](h.op = "rejected" => ~WGe(h.r, h.min))
    /\ [](h.op \in {"accepted", "returned"} => WGe(h.r, h.min))
    /\ (h.op = "min") ~> (h.op = "accepted")

\* the worst case U = 2^31 + 1: a draw was thrown away, a later one returned
C16_Witness ==
    /\ h.op = "returned"
    /\ h.arg = <<32768, 1>>
    /\ h.min = <<32767, 65535>>
    /\ h.had_reject
    /\ WGe(h.r, h.min)

\* nothing in the generator's state or in the output of the last call is
\* left to the content of memory that the program never wrote
Determined ==
    /\ rs.j # Indet
    /\ rs.s # IndetTable
    /\ \A k \in 1..Len(h.out) : h.out[k] # Indet
    /\ \A k \in 1..Len(h.words) : h.words[k] # IndetWord

(* C17: two generators in the same state that get the same bytes from the  *)
(* device, see the same pid and make the same call return the same output  *)
(* and end in the same state.  The operators are functions of the state,   *)
(* of the device bytes and of whatever is indeterminate, so this says that *)
(* nothing indeterminate enters the state or the output.                   *)
C17_Deterministic ==
    ~aborted => Determined

(* C18: close() changes nothing but the entropy handle: s, i, j, count,    *)
(* stir_pid and rs_initialized are after it what they were before it,      *)
(* whether it returned 0 or -1.                                            *)
C18_CloseFrame ==
    h.op = "close"
        => /\ rs = h.pre.rs
           /\ alt_arc4_count = h.pre.count
           /\ alt_arc4_stir_pid = h.pre.stir_pid
           /\ rs_initialized = h.pre.init
           /\ h.ret \in {0, -1}
           /\ h.c_stir = 0 /\ h.c_read = 0 /\ h.c_open = 0 /\ h.n_out = 0

\* a keyed generator was closed with success
C18_Witness ==
    /\ h.op = "close" /\ h.ret = 0
    /\ h.pre.fd = DevFd /\ random_data_source_fd = NoFd
    /\ h.pre.init = 1 /\ rs_initialized = 1
    /\ IsPerm(rs.s) /\ rs = h.pre.rs
    /\ alt_arc4_count = h.pre.count /\ alt_arc4_count > 0

(* C19: addrandom(D, L) on a generator that is not initialized makes a     *)
(* complete reseed first and mixes D into the table that reseed left; on   *)
(* an initialized one it mixes D into the table by the 256 steps of the    *)
(* loop, ends with j = i, reads no entropy and leaves count, stir_pid,     *)
(* rs_initialized and the handle as they were.                             *)
C19_Addrandom ==
    (h.op = "addrandom" /\ ~aborted)
        => LET D == CHOOSE d \in Data : Len(d) = h.arg
           IN  /\ rs.j = rs.i
               /\ h.n_out = 0
               /\ IF h.pre.init = 0
                  THEN /\ h.c_stir = 1 /\ h.c_open = 1 /\ h.c_read = 1
                       /\ h.last_stir.path = "addrandom"
                       /\ h.last_stir.discarded = DiscardLen
                       /\ h.last_stir.count = RekeyInterval
                       /\ rs_initialized = 1
                       /\ alt_arc4_count = RekeyInterval
                       /\ rs = alt_arc4_addrandom([rs |-> h.last_stir.rs],
                                                  D, h.arg).rs
                  ELSE /\ h.c_stir = 0 /\ h.c_open = 0
                       /\ h.c_read = 0 /\ h.c_uninit = 0
                       /\ rs = alt_arc4_addrandom([rs |-> h.pre.rs], D, h.arg).rs
                       /\ rs.i = (h.pre.rs.i + 255) % 256
                       /\ alt_arc4_count = h.pre.count
                       /\ alt_arc4_stir_pid = h.pre.stir_pid
                       /\ rs_initialized = h.pre.init
                       /\ random_data_source_fd = h.pre.fd

\* the first call of the program was addrandom with two bytes of data
C19_Witness ==
    /\ h.op = "addrandom" /\ h.arg = 2 /\ ~aborted
    /\ h.pre.init = 0 /\ rs_initialized = 1
    /\ h.c_stir = 1 /\ h.c_read = 1
    /\ rs.s # h.last_stir.rs.s
    /\ rs.j = rs.i

(* C20: between calls an initialized generator has 1 <= count <= 1600000;  *)
(* count is 0 only before the first use; during a call count is never      *)
(* below -4.                                                               *)
C20_CountRange ==
    /\ h.min_count >= -4
    /\ alt_arc4_count >= -4
    /\ (rs_initialized = 1 /\ ~aborted)
          => (1 <= alt_arc4_count /\ alt_arc4_count <= RekeyInterval)
    /\ (alt_arc4_count = 0 /\ ~aborted)
          => (rs_initialized = 0 /\ h.n_stir = 0 /\ h.n_out = 0)

\* random() entered with fewer than four bytes left: count went below zero
\* during the call and the reseed re-armed it
C20_Witness ==
    /\ h.op = "random" /\ ~aborted
    /\ h.pre.init = 1
    /\ h.pre.count \in 1..3
    /\ h.min_count = h.pre.count - 4
    /\ h.c_stir = 1
    /\ alt_arc4_count = RekeyInterval

====
